---- MODULE Spec2Model ----
(***************************************************************************)
(* Document ingestion and retrieval pipeline of flight-buddy-ai.            *)
(*                                                                         *)
(*   SpecChunker  splitTextIntoChunks, one loop iteration per step, for    *)
(*                texts and (chunkSize, overlap) drawn from bounded sets.  *)
(*   Spec         the upload flow, the process-pdf handler (both variants  *)
(*                found in the file), direct requests and deletion, over   *)
(*                the documents / document_chunks tables.                  *)
(*   SpecSearch   the search-documents handler over a store whose content  *)
(*                is drawn from bounded sets.                              *)
(*   SpecExtract  the /api/pdf-extract handler, for documents whose pages  *)
(*                are drawn from bounded sets.                             *)
(*   SpecLimiter  a limiter made by createRateLimiter, called by several   *)
(*                identifiers while the clock advances.                    *)
(***************************************************************************)
EXTENDS Integers, Sequences, FiniteSets, TLC

VARIABLES
    documents,        \* table public.documents: id -> row
    document_chunks,  \* table public.document_chunks: a set of rows
    storage,          \* storage bucket 'documents': set of object paths
    nextId,           \* number of document ids handed out so far
    uploads,          \* handleUpload invocations: upload -> local state
    runs,             \* process-pdf invocations: run -> local state
    ck,               \* splitTextIntoChunks: the locals of one call
    search,           \* search-documents: the request and its response
    extraction,       \* /api/pdf-extract: the locals of one request
    limiter           \* createRateLimiter: one limiter, with the clock

vars == <<documents, document_chunks, storage, nextId, uploads, runs, ck, search, extraction, limiter>>
pipelineVars == <<documents, document_chunks, storage, nextId, uploads, runs>>

(***************************************************************************)
(* Bounds of the model.                                                    *)
(***************************************************************************)
MaxLen == 5         \* longest text given to the chunker
MaxChunkSize == 3   \* largest chunkSize drawn for the chunker
MaxWindows == 5     \* windows after which a chunker call is no longer followed

Min(a, b) == IF a < b THEN a ELSE b
Max(a, b) == IF a > b THEN a ELSE b
SetMax(S) == CHOOSE x \in S : \A y \in S : y <= x

(***************************************************************************)
(* JavaScript string operations used by the chunker, on sequences of       *)
(* one-character strings.                                                  *)
(***************************************************************************)
Chars == {"a", ".", "\n", " "}

\* String.prototype.slice(a, b): negative indices count from the end.
Slice(s, a, b) ==
    LET L == Len(s)
        from == IF a < 0 THEN Max(L + a, 0) ELSE Min(a, L)
        to == IF b < 0 THEN Max(L + b, 0) ELSE Min(b, L)
    IN  IF from >= to THEN <<>> ELSE SubSeq(s, from + 1, to)

\* String.prototype.lastIndexOf(c): zero-based, -1 when absent.
LastIndexOf(s, c) ==
    LET I == {i \in 1..Len(s) : s[i] = c}
    IN  IF I = {} THEN -1 ELSE SetMax(I) - 1

IsSpace(c) == c \in {" ", "\n"}

\* String.prototype.trim().
Trim(s) ==
    LET I == {i \in 1..Len(s) : ~IsSpace(s[i])}
    IN  IF I = {} THEN <<>>
        ELSE SubSeq(s, CHOOSE i \in I : \A j \in I : i <= j, SetMax(I))

(***************************************************************************)
(* splitTextIntoChunks(text, chunkSize, overlap).                          *)
(***************************************************************************)
\* The arguments of the handler's call.
CHUNK_SIZE == 1000
CHUNK_OVERLAP == 200

\* const end = Math.min(start + chunkSize, text.length)
WindowEnd(text, chunkSize, start) == Min(start + chunkSize, Len(text))

\* let chunkText = text.slice(start, end)
WindowText(text, chunkSize, start) ==
    Slice(text, start, WindowEnd(text, chunkSize, start))

\* Math.max(chunkText.lastIndexOf('.'), chunkText.lastIndexOf('\n'))
BreakPoint(chunkText) ==
    Max(LastIndexOf(chunkText, "."), LastIndexOf(chunkText, "\n"))

\* end < text.length  and  breakPoint > start + chunkSize * 0.5
\* (breakPoint is an index into chunkText, start an index into text).
SnapTaken(text, chunkSize, start) ==
    /\ WindowEnd(text, chunkSize, start) < Len(text)
    /\ 2 * BreakPoint(WindowText(text, chunkSize, start)) > 2 * start + chunkSize

\* The page fallback Math.floor(chunkIndex / 5) + 1 and a null section: no text
\* over Chars holds a digit or a capital letter, so neither pattern matches.
ChunkRecord(chunkText, chunkIndex) ==
    [content |-> Trim(chunkText), page |-> (chunkIndex \div 5) + 1, section |-> "null"]

ChunkerInputs ==
    {[text |-> t, chunkSize |-> c, overlap |-> o] :
        t \in UNION {[1..n -> Chars] : n \in 0..MaxLen},
        c \in 1..MaxChunkSize, o \in 0..(MaxChunkSize - 1)}

ChunkerStart(in) ==
    [text |-> in.text, chunkSize |-> in.chunkSize, overlap |-> in.overlap,
     start |-> 0, chunkIndex |-> 0, chunks |-> <<>>, pc |-> "loop"]

ChunkerIdle ==
    [text |-> <<>>, chunkSize |-> 1, overlap |-> 0,
     start |-> 0, chunkIndex |-> 0, chunks |-> <<>>, pc |-> "idle"]

\* while (start < text.length) is false: return chunks
SplitReturn ==
    /\ ck.pc = "loop"
    /\ ~(ck.start < Len(ck.text))
    /\ ck' = [ck EXCEPT !.pc = "returned"]
    /\ UNCHANGED pipelineVars
    /\ UNCHANGED <<search, extraction, limiter>>

\* The sentence-boundary branch: chunkText is cut, then "end = start + breakPoint + 1"
\* assigns to the const binding end, which throws a TypeError.
SplitThrow ==
    /\ ck.pc = "loop"
    /\ ck.start < Len(ck.text)
    /\ SnapTaken(ck.text, ck.chunkSize, ck.start)
    /\ ck' = [ck EXCEPT !.pc = "threw"]
    /\ UNCHANGED pipelineVars
    /\ UNCHANGED <<search, extraction, limiter>>

\* One pass of the loop body without the sentence-boundary branch:
\* push the chunk, start = end - overlap, chunkIndex++, and the loop goes on.
SplitIterate ==
    /\ ck.pc = "loop"
    /\ Len(ck.chunks) < MaxWindows
    /\ ck.start < Len(ck.text)
    /\ ~SnapTaken(ck.text, ck.chunkSize, ck.start)
    /\ LET end == WindowEnd(ck.text, ck.chunkSize, ck.start)
           chunkText == WindowText(ck.text, ck.chunkSize, ck.start)
       IN  /\ ~(end - ck.overlap >= end)
           /\ ck' = [ck EXCEPT !.chunks = Append(@, ChunkRecord(chunkText, ck.chunkIndex)),
                               !.start = end - ck.overlap,
                               !.chunkIndex = @ + 1]
    /\ UNCHANGED pipelineVars
    /\ UNCHANGED <<search, extraction, limiter>>

\* One pass of the loop body that ends in "if (start >= end) break".
SplitBreak ==
    /\ ck.pc = "loop"
    /\ Len(ck.chunks) < MaxWindows
    /\ ck.start < Len(ck.text)
    /\ ~SnapTaken(ck.text, ck.chunkSize, ck.start)
    /\ LET end == WindowEnd(ck.text, ck.chunkSize, ck.start)
           chunkText == WindowText(ck.text, ck.chunkSize, ck.start)
       IN  /\ end - ck.overlap >= end
           /\ ck' = [ck EXCEPT !.chunks = Append(@, ChunkRecord(chunkText, ck.chunkIndex)),
                               !.start = end - ck.overlap,
                               !.chunkIndex = @ + 1,
                               !.pc = "returned"]
    /\ UNCHANGED pipelineVars
    /\ UNCHANGED <<search, extraction, limiter>>

PipelineIdle ==
    /\ documents = <<>>
    /\ document_chunks = {}
    /\ storage = {}
    /\ nextId = 0
    /\ uploads = <<>>
    /\ runs = <<>>

SearchIdle == search = [pc |-> "idle"]

ExtractionIdle == extraction = [pc |-> "idle"]

LimiterIdle == limiter = [pc |-> "idle"]

InitChunker ==
    /\ \E in \in ChunkerInputs \cup
                 {[text |-> t, chunkSize |-> CHUNK_SIZE, overlap |-> CHUNK_OVERLAP] :
                     t \in {<<"a">>, <<"a", ".", " ", "a">>}} :
          /\ in.chunkSize > in.overlap
          /\ ck = ChunkerStart(in)
    /\ PipelineIdle
    /\ SearchIdle
    /\ ExtractionIdle
    /\ LimiterIdle

NextChunker == SplitReturn \/ SplitThrow \/ SplitIterate \/ SplitBreak

SpecChunker == InitChunker /\ [][NextChunker]_vars

(***************************************************************************)
(* The store: tables documents and document_chunks, bucket 'documents'.    *)
(***************************************************************************)
MaxUploads == 2     \* handleUpload invocations (each creates at most one document)
MaxRuns == 2        \* process-pdf invocations
MaxChunks == 2      \* most chunks one document's text is cut into

Users == {"u1", "u2"}
DocumentTypes == {"FCOM", "QRH"}
Statuses == {"pending", "processing", "completed", "failed"}

NoDocId == 0        \* a request body without documentId
UnknownId == -1     \* a documentId naming no row of documents

NoText == <<"none", 0>>
ExtractedText(u) == <<"extracted", u>>   \* /api/pdf-extract's content for upload u
MetadataText(d) == <<"metadata", d>>     \* the template over title, type and file name
ServerText(d) == <<"server", d>>         \* the text the second variant extracts itself

\* total_chunks INTEGER DEFAULT 0
DEFAULT_TOTAL_CHUNKS == 0

\* The row handleUpload inserts: processing_status is given, total_chunks is not.
UploadedRow(user, type, path) ==
    [user_id |-> user, document_type |-> type, file_path |-> path,
     processing_status |-> "processing", total_chunks |-> DEFAULT_TOTAL_CHUNKS]

\* The number of chunks the call splitTextIntoChunks(extractedText, 1000, 200) yields
\* for document d's text when it returns: the same for every run of the document.
\* The call is taken by its contract here (an ordered, non-empty list for a non-empty
\* text); whether the function as coded returns is SpecChunker's subject.
ChunkCount(d) == ((d - 1) % MaxChunks) + 1

ChunksOf(d) == {c \in document_chunks : c.document_id = d}

\* The embeddings provider on a chunk's content: one of two vectors.
EmbeddingOf(content) == (content[1][2] + content[2]) % 2

\* .update(fields).eq('id', d): no row, no change.
SetStatus(d, status) ==
    IF d \in DOMAIN documents
    THEN [documents EXCEPT ![d].processing_status = status]
    ELSE documents

\* .update({processing_status: 'completed', total_chunks: n}).eq('id', d)
SetCompleted(d, n) ==
    IF d \in DOMAIN documents
    THEN [documents EXCEPT ![d].processing_status = "completed", ![d].total_chunks = n]
    ELSE documents

\* .delete().eq('id', d), with document_chunks.document_id ON DELETE CASCADE
WithoutDocument(d) == [x \in DOMAIN documents \ {d} |-> documents[x]]

(***************************************************************************)
(* handleUpload (DocumentUpload.tsx), from its try block on.               *)
(***************************************************************************)
UploadIds == 1..MaxUploads
RunIds == 1..MaxRuns

\* The signed-in user and the form's document type of upload u.
UserOf(u) == IF u % 2 = 1 THEN "u1" ELSE "u2"
TypeOf(u) == IF u % 2 = 1 THEN "FCOM" ELSE "QRH"

\* failed: the step of handleUpload that threw, if one did.
IdleUpload == [pc |-> "idle", doc |-> NoDocId, failed |-> "none"]
IdleRun ==
    [pc |-> "idle", caller |-> "u1", variant |-> 1, documentId |-> NoDocId,
     extractedText |-> NoText,
     text |-> NoText, n |-> 0, i |-> 0, calls |-> 0, failedAt |-> -1,
     fresh |-> FALSE, response |-> "none"]

PathOf(u) == <<UserOf(u), u>>      \* `${user.id}/${Date.now()}-${name}`

\* Step 1 with the extraction's response unchecked.
UploadExtractUnchecked(u) ==
    /\ uploads[u].pc = "idle"
    /\ \A v \in UploadIds : v < u => uploads[v].pc # "idle"
    /\ \E ok \in BOOLEAN :
          uploads' = [uploads EXCEPT ![u].pc = "storage",
                                     ![u].failed = IF ok THEN @ ELSE "extract"]
    /\ UNCHANGED <<documents, document_chunks, storage, nextId, runs, ck, search, extraction, limiter>>

\* Step 1: POST /api/pdf-extract; a response that is not ok throws.
UploadExtract(u) ==
    /\ uploads[u].pc = "idle"
    /\ \A v \in UploadIds : v < u => uploads[v].pc # "idle"
    /\ \E ok \in BOOLEAN :
          uploads' = [uploads EXCEPT ![u].pc = IF ok THEN "storage" ELSE "failed",
                                     ![u].failed = IF ok THEN @ ELSE "extract"]
    /\ UNCHANGED <<documents, document_chunks, storage, nextId, runs, ck, search, extraction, limiter>>

\* Step 2: storage.from('documents').upload(fileName, file)
UploadStore(u) ==
    /\ uploads[u].pc = "storage"
    /\ \E ok \in BOOLEAN :
          /\ uploads' = [uploads EXCEPT ![u].pc = IF ok THEN "insert" ELSE "failed",
                                        ![u].failed = IF ok THEN @ ELSE "storage"]
          /\ storage' = IF ok THEN storage \cup {PathOf(u)} ELSE storage
    /\ UNCHANGED <<documents, document_chunks, nextId, runs, ck, search, extraction, limiter>>

\* Step 3: from('documents').insert({..., processing_status: 'processing'})
UploadInsert(u) ==
    /\ uploads[u].pc = "insert"
    /\ \E ok \in BOOLEAN :
          IF ok
          THEN /\ nextId' = nextId + 1
               /\ documents' = documents @@
                     ((nextId + 1) :> UploadedRow(UserOf(u), TypeOf(u), PathOf(u)))
               /\ uploads' = [uploads EXCEPT ![u].pc = "invoke", ![u].doc = nextId + 1]
          ELSE /\ uploads' = [uploads EXCEPT ![u].pc = "failed", ![u].failed = "insert"]
               /\ UNCHANGED <<documents, nextId>>
    /\ UNCHANGED <<document_chunks, storage, runs, ck, search, extraction, limiter>>

\* A process-pdf request enters the handler: its body is read and the run begins.
NewRun(caller, variant, documentId, extractedText) ==
    [IdleRun EXCEPT !.pc = "fetch", !.caller = caller, !.variant = variant,
                    !.documentId = documentId, !.extractedText = extractedText]

FreeRun(r) ==
    /\ runs[r].pc = "idle"
    /\ \A q \in RunIds : q < r => runs[q].pc # "idle"

\* Step 4: functions.invoke('process-pdf', {documentId, extractedText, metadata})
UploadInvoke(u) ==
    /\ uploads[u].pc = "invoke"
    /\ \E r \in RunIds, variant \in {1, 2} :
          /\ FreeRun(r)
          /\ runs' = [runs EXCEPT ![r] =
                NewRun(UserOf(u), variant, uploads[u].doc, ExtractedText(u))]
    /\ uploads' = [uploads EXCEPT ![u].pc = "done"]
    /\ UNCHANGED <<documents, document_chunks, storage, nextId, ck, search, extraction, limiter>>

\* handleDelete: storage.remove([doc.file_path]), its result unchecked ...
DeleteStorage(u) ==
    /\ uploads[u].pc \in {"done", "failed"}
    /\ uploads[u].doc \in DOMAIN documents
    /\ documents[uploads[u].doc].user_id = UserOf(u)
    /\ storage' = storage \ {documents[uploads[u].doc].file_path}
    /\ uploads' = [uploads EXCEPT ![u].pc = "deleting"]
    /\ UNCHANGED <<documents, document_chunks, nextId, runs, ck, search, extraction, limiter>>

\* ... then from('documents').delete().eq('id', doc.id), which cascades to the chunks.
DeleteRow(u) ==
    /\ uploads[u].pc = "deleting"
    /\ \E ok \in BOOLEAN :
          IF ok
          THEN /\ documents' = WithoutDocument(uploads[u].doc)
               /\ document_chunks' =
                     {c \in document_chunks : c.document_id # uploads[u].doc}
          ELSE UNCHANGED <<documents, document_chunks>>
    /\ uploads' = [uploads EXCEPT ![u].pc = "deleted"]
    /\ UNCHANGED <<storage, nextId, runs, ck, search, extraction, limiter>>

(***************************************************************************)
(* The process-pdf handler.  The file holds two variants of it: the first  *)
(* builds the text from the document's metadata, the second downloads the  *)
(* file and extracts its text; they differ again in the catch block.       *)
(***************************************************************************)
\* A request sent to the endpoint directly by some user, with a body {documentId}
\* or {}.
Request(r) ==
    /\ FreeRun(r)
    /\ \E caller \in Users, variant \in {1, 2}, d \in (0..nextId) \cup {UnknownId} :
          runs' = [runs EXCEPT ![r] = NewRun(caller, variant, d, NoText)]
    /\ UNCHANGED <<documents, document_chunks, storage, nextId, uploads, ck, search, extraction, limiter>>

\* if (!documentId) throw; select('*').eq('id', documentId).single(); if (docError) throw
FetchDocument(r) ==
    /\ runs[r].pc = "fetch"
    /\ \E ok \in BOOLEAN :
          runs' = [runs EXCEPT ![r].pc =
              IF runs[r].documentId \in DOMAIN documents /\ ok
              THEN "setProcessing" ELSE "catch"]
    /\ UNCHANGED <<documents, document_chunks, storage, nextId, uploads, ck, search, extraction, limiter>>

\* update({processing_status: 'processing'}).eq('id', documentId): whatever the
\* current status, and with the result unchecked.
SetProcessing(r) ==
    /\ runs[r].pc = "setProcessing"
    /\ \E ok \in BOOLEAN :
          documents' = IF ok THEN SetStatus(runs[r].documentId, "processing")
                       ELSE documents
    /\ runs' = [runs EXCEPT ![r].pc = IF runs[r].variant = 1 THEN "split" ELSE "download",
                            ![r].fresh = (ChunksOf(runs[r].documentId) = {})]
    /\ UNCHANGED <<document_chunks, storage, nextId, uploads, ck, search, extraction, limiter>>

\* Second variant: storage download and text extraction; a download error or an
\* empty text throws.
Download(r) ==
    /\ runs[r].pc = "download"
    /\ \E ok \in BOOLEAN :
          runs' = [runs EXCEPT ![r].pc = IF ok THEN "split" ELSE "catch"]
    /\ UNCHANGED <<documents, document_chunks, storage, nextId, uploads, ck, search, extraction, limiter>>

\* The text given to the chunker: the request's extractedText is not read.
ChunkerInput(r) ==
    IF runs[r].variant = 1 THEN MetadataText(runs[r].documentId)
    ELSE ServerText(runs[r].documentId)

\* const chunks = splitTextIntoChunks(extractedText, 1000, 200)
Split(r) ==
    /\ runs[r].pc = "split"
    /\ runs' = [runs EXCEPT ![r].pc = "embed",
                            ![r].text = ChunkerInput(r),
                            ![r].n = ChunkCount(runs[r].documentId),
                            ![r].i = 0]
    /\ UNCHANGED <<documents, document_chunks, storage, nextId, uploads, ck, search, extraction, limiter>>

\* The embeddings call for chunk i; a response that is not ok (or holds no
\* embedding) throws.
Embed(r) ==
    /\ runs[r].pc = "embed"
    /\ \E ok \in BOOLEAN :
          runs' = [runs EXCEPT ![r].calls = @ + 1,
                               ![r].pc = IF ok THEN "insert" ELSE "catch",
                               ![r].failedAt = IF ok THEN @ ELSE runs[r].i]
    /\ UNCHANGED <<documents, document_chunks, storage, nextId, uploads, ck, search, extraction, limiter>>

\* The row the loop inserts for chunk i: a new id, chunk_index i, the i-th chunk of
\* the run's text.
ChunkRow(r) ==
    [id |-> <<r, runs[r].i>>, document_id |-> runs[r].documentId,
     chunk_index |-> runs[r].i, content |-> <<runs[r].text, runs[r].i>>,
     embedding |-> EmbeddingOf(<<runs[r].text, runs[r].i>>)]

\* The insert as an upsert on (document_id, chunk_index).
InsertChunkUpsert(r) ==
    /\ runs[r].pc = "insert"
    /\ \E ok \in BOOLEAN :
          IF ok /\ runs[r].documentId \in DOMAIN documents
          THEN /\ document_chunks' =
                     {c \in document_chunks :
                         ~(/\ c.document_id = runs[r].documentId
                           /\ c.chunk_index = runs[r].i)} \cup {ChunkRow(r)}
               /\ runs' = [runs EXCEPT ![r].i = @ + 1,
                                       ![r].pc = IF runs[r].i + 1 < runs[r].n
                                                 THEN "embed" ELSE "complete"]
          ELSE /\ runs' = [runs EXCEPT ![r].pc = "catch", ![r].failedAt = runs[r].i]
               /\ UNCHANGED document_chunks
    /\ UNCHANGED <<documents, storage, nextId, uploads, ck, search, extraction, limiter>>

\* The insert without the foreign key on document_id.
InsertChunkNoForeignKey(r) ==
    /\ runs[r].pc = "insert"
    /\ \E ok \in BOOLEAN :
          IF ok
          THEN /\ document_chunks' = document_chunks \cup {ChunkRow(r)}
               /\ runs' = [runs EXCEPT ![r].i = @ + 1,
                                       ![r].pc = IF runs[r].i + 1 < runs[r].n
                                                 THEN "embed" ELSE "complete"]
          ELSE /\ runs' = [runs EXCEPT ![r].pc = "catch", ![r].failedAt = runs[r].i]
               /\ UNCHANGED document_chunks
    /\ UNCHANGED <<documents, storage, nextId, uploads, ck, search, extraction, limiter>>

\* from('document_chunks').insert(row); chunkError throws (the foreign key fails
\* when the document is gone).  Then i++ and the loop test.
InsertChunk(r) ==
    /\ runs[r].pc = "insert"
    /\ \E ok \in BOOLEAN :
          IF ok /\ runs[r].documentId \in DOMAIN documents
          THEN /\ document_chunks' = document_chunks \cup {ChunkRow(r)}
               /\ runs' = [runs EXCEPT ![r].i = @ + 1,
                                       ![r].pc = IF runs[r].i + 1 < runs[r].n
                                                 THEN "embed" ELSE "complete"]
          ELSE /\ runs' = [runs EXCEPT ![r].pc = "catch", ![r].failedAt = runs[r].i]
               /\ UNCHANGED document_chunks
    /\ UNCHANGED <<documents, storage, nextId, uploads, ck, search, extraction, limiter>>

\* update({processing_status: 'completed', total_chunks: chunks.length}), its result
\* unchecked, then the success response.
Complete(r) ==
    /\ runs[r].pc = "complete"
    /\ \E ok \in BOOLEAN :
          documents' = IF ok THEN SetCompleted(runs[r].documentId, runs[r].n)
                       ELSE documents
    /\ runs' = [runs EXCEPT ![r].pc = "done", ![r].response = "success"]
    /\ UNCHANGED <<document_chunks, storage, nextId, uploads, ck, search, extraction, limiter>>

\* The catch block.  First variant: if (documentId) update({processing_status:
\* 'failed'}), result unchecked.  Second variant: it reads the request body again
\* (req.text() after req.json()), which throws before any update.  Either way the
\* caller gets status 500.
Catch(r) ==
    /\ runs[r].pc = "catch"
    /\ \E ok \in BOOLEAN :
          documents' =
              IF runs[r].variant = 1 /\ runs[r].documentId # NoDocId /\ ok
              THEN SetStatus(runs[r].documentId, "failed")
              ELSE documents
    /\ runs' = [runs EXCEPT ![r].pc = "done", ![r].response = "error"]
    /\ UNCHANGED <<document_chunks, storage, nextId, uploads, ck, search, extraction, limiter>>

Init ==
    /\ documents = <<>>
    /\ document_chunks = {}
    /\ storage = {}
    /\ nextId = 0
    /\ uploads = [u \in UploadIds |-> IdleUpload]
    /\ runs = [r \in RunIds |-> IdleRun]
    /\ ck = ChunkerIdle
    /\ SearchIdle
    /\ ExtractionIdle
    /\ LimiterIdle

Next ==
    \/ \E u \in UploadIds :
          \/ UploadExtract(u)
          \/ UploadStore(u)
          \/ UploadInsert(u)
          \/ UploadInvoke(u)
          \/ DeleteStorage(u)
          \/ DeleteRow(u)
    \/ \E r \in RunIds :
          \/ Request(r)
          \/ FetchDocument(r)
          \/ SetProcessing(r)
          \/ Download(r)
          \/ Split(r)
          \/ Embed(r)
          \/ InsertChunk(r)
          \/ Complete(r)
          \/ Catch(r)

Spec == Init /\ [][Next]_vars

(***************************************************************************)
(* The search-documents handler.  The store it reads is drawn from bounded *)
(* sets: every document in any status, of any type and owner, holding the  *)
(* chunks of its text.                                                     *)
(***************************************************************************)
MaxLimit == 2       \* largest limit a search request gives

Words == {"w1", "w2"}
\* const { query, limit = 5, documentTypes } = await req.json()
DEFAULT_LIMIT == 5
\* similarity: 0.5 on the fallback path, in tenths
FALLBACK_SIMILARITY == 5

\* The word a chunk's content holds, for the full-text match.
WordOf(content) == IF content[2] % 2 = 0 THEN "w1" ELSE "w2"

\* .textSearch('content', query)
TextSearch(content, query) == WordOf(content) = query

\* The queries drawn: none, one word, two words.
Queries == Words \cup {"", "w1 w2"}

SearchRequests ==
    [user : Users, query : Queries,
     limit : {<<>>} \cup {<<n>> : n \in 0..MaxLimit},
     documentTypes : SUBSET DocumentTypes]

LimitOf(req) == IF req.limit = <<>> THEN DEFAULT_LIMIT ELSE req.limit[1]

\* Row level security on document_chunks and documents: the rows the caller's
\* token may read.
Visible(user) ==
    {c \in document_chunks :
        /\ c.document_id \in DOMAIN documents
        /\ documents[c.document_id].user_id = user}

\* documentTypes && documentTypes.length > 0
TypesGiven(types) == types # {}

\* The fallback query without .eq('documents.processing_status', 'completed').
FallbackRowsAnyStatus(user, query, types) ==
    {c \in Visible(user) :
        /\ TextSearch(c.content, query)
        /\ (TypesGiven(types) => documents[c.document_id].document_type \in types)}

\* The fallback query without .in('documents.document_type', documentTypes).
FallbackRowsAnyType(user, query, types) ==
    {c \in Visible(user) :
        /\ TextSearch(c.content, query)
        /\ documents[c.document_id].processing_status = "completed"}

\* The fallback query: from('document_chunks').select(..., documents!inner(...))
\* .textSearch('content', query).eq('documents.processing_status', 'completed')
\* and, when types are given, .in('documents.document_type', documentTypes).
FallbackRows(user, query, types) ==
    {c \in Visible(user) :
        /\ TextSearch(c.content, query)
        /\ documents[c.document_id].processing_status = "completed"
        /\ (TypesGiven(types) => documents[c.document_id].document_type \in types)}

\* The rows the rpc search_similar_chunks ranks: chunks of completed documents,
\* restricted to the given types.
SimilarRows(user, types) ==
    {c \in Visible(user) :
        /\ documents[c.document_id].processing_status = "completed"
        /\ (TypesGiven(types) => documents[c.document_id].document_type \in types)}

Distance(a, b) == IF a > b THEN a - b ELSE b - a

\* The lists of k different rows of S.
Lists(S, k) ==
    {f \in [1..k -> S] : \A i, j \in 1..k : i # j => f[i] # f[j]}

\* .limit(limit): any limit of the matching rows, in the store's order.
Limited(S, limit) == Lists(S, Min(Max(limit, 0), Cardinality(S)))

\* The rpc's answer: the first match_count rows by ascending distance to the query
\* embedding, rows of one document at equal distance in chunk order.
Ranked(S, q, limit) ==
    {f \in Limited(S, limit) :
        /\ \A i, j \in 1..Len(f) :
              i < j => Distance(f[i].embedding, q) <= Distance(f[j].embedding, q)
        /\ \A i \in 1..Len(f) : \A c \in S :
              (\A j \in 1..Len(f) : f[j] # c)
                  => Distance(f[i].embedding, q) <= Distance(c.embedding, q)
        /\ \A i, j \in 1..Len(f) :
              (/\ i < j
               /\ f[i].document_id = f[j].document_id
               /\ Distance(f[i].embedding, q) = Distance(f[j].embedding, q))
                  => f[i].chunk_index < f[j].chunk_index}

\* formattedResults: one item per row of the fallback query.
FallbackItem(c) ==
    [id |-> c.id, content |-> c.content,
     document_type |-> documents[c.document_id].document_type,
     similarity |-> FALLBACK_SIMILARITY]

\* One row of the rpc's answer.
SimilarItem(c, q) ==
    [id |-> c.id, content |-> c.content,
     document_type |-> documents[c.document_id].document_type,
     similarity |-> 10 * Distance(c.embedding, q)]

\* The error messages the store can give to the rpc call or to the fallback query,
\* word by word.
UndefinedFunction == <<"function", "search_similar_chunks", "(vector, ...)", "does", "not", "exist">>
NotInSchemaCache ==
    <<"Could", "not", "find", "the", "function", "public.search_similar_chunks",
      "in", "the", "schema", "cache">>
PermissionDenied == <<"permission", "denied", "for", "function", "search_similar_chunks">>
StatementTimeout == <<"canceling", "statement", "due", "to", "statement", "timeout">>
TsQuerySyntax == <<"syntax", "error", "in", "tsquery">>
NoMessage == <<>>

RpcErrors == {UndefinedFunction, NotInSchemaCache, PermissionDenied, StatementTimeout}

\* The store reports that the similarity function does not exist.
FunctionMissing(message) == message \in {UndefinedFunction, NotInSchemaCache}

\* String.prototype.includes, on words.
Includes(message, part) ==
    \E k \in 0..(Len(message) - Len(part)) :
        \A i \in 1..Len(part) : message[k + i] = part[i]

\* searchError.message.includes('function search_similar_chunks')
FallbackDetected(message) == Includes(message, <<"function", "search_similar_chunks">>)

\* to_tsquery, which textSearch applies to the query: words separated by white
\* space without an operator are a syntax error.
TsQueryValid(query) == query \in Words

\* The errors the fallback query can answer with.
FallbackErrors(query) ==
    IF TsQueryValid(query) THEN {StatementTimeout} ELSE {TsQuerySyntax}

NoError == [message |-> "", detail |-> NoMessage]

\* The response, with what the handler did on the way: the query embedding of a
\* successful search (-1: none), the limit it passed to the store (-1: no store query), the rpc's error.
SearchDone(req, path, q, rpcError, status, results, error) ==
    search' = [pc |-> "done", req |-> req, path |-> path,
               queryEmbedding |-> q,
               match_count |-> IF path \in {"rejected", "embedding"}
                               THEN -1 ELSE LimitOf(req),
               rpcError |-> rpcError,
               status |-> status, results |-> results, error |-> error]

\* if (!query) throw new Error('Search query is required'); the catch answers 500
\* with the error's message.
SearchNoQuery ==
    /\ search.pc = "idle"
    /\ \E req \in SearchRequests :
          /\ req.query = ""
          /\ SearchDone(req, "rejected", -1, NoMessage, 500, <<>>,
                        [message |-> "Search query is required", detail |-> NoMessage])
    /\ UNCHANGED <<documents, document_chunks, storage, nextId, uploads, runs, ck, extraction, limiter>>

\* The embeddings call for the query fails: throw, 500.
SearchEmbedFails ==
    /\ search.pc = "idle"
    /\ \E req \in SearchRequests :
          /\ req.query # ""
          /\ SearchDone(req, "embedding", -1, NoMessage, 500, <<>>,
                        [message |-> "Failed to create search embedding",
                         detail |-> NoMessage])
    /\ UNCHANGED <<documents, document_chunks, storage, nextId, uploads, runs, ck, extraction, limiter>>

\* The primary response with the rpc's rows in any order.
SearchPrimaryAnyOrder ==
    /\ search.pc = "idle"
    /\ \E req \in SearchRequests, q \in {0, 1} :
          /\ req.query # ""
          /\ \E f \in Ranked(SimilarRows(req.user, req.documentTypes), q, LimitOf(req)) :
                \E g \in Lists({f[i] : i \in 1..Len(f)}, Len(f)) :
                    SearchDone(req, "primary", q, NoMessage, 200,
                               [i \in 1..Len(g) |-> SimilarItem(g[i], q)], NoError)
    /\ UNCHANGED <<documents, document_chunks, storage, nextId, uploads, runs, ck, extraction, limiter>>

\* rpc('search_similar_chunks', ...) answers: the response holds its rows as they
\* came.
SearchPrimary ==
    /\ search.pc = "idle"
    /\ \E req \in SearchRequests, q \in {0, 1} :
          /\ req.query # ""
          /\ \E f \in Ranked(SimilarRows(req.user, req.documentTypes), q, LimitOf(req)) :
                SearchDone(req, "primary", q, NoMessage, 200,
                           [i \in 1..Len(f) |-> SimilarItem(f[i], q)], NoError)
    /\ UNCHANGED <<documents, document_chunks, storage, nextId, uploads, runs, ck, extraction, limiter>>

\* The rpc fails with a message that does not include
\* 'function search_similar_chunks': throw new Error(`Search failed: ${message}`), 500.
SearchPrimaryFails ==
    /\ search.pc = "idle"
    /\ \E req \in SearchRequests, message \in RpcErrors :
          /\ req.query # ""
          /\ ~FallbackDetected(message)
          /\ SearchDone(req, "rpc", -1, message, 500, <<>>,
                        [message |-> "Search failed", detail |-> message])
    /\ UNCHANGED <<documents, document_chunks, storage, nextId, uploads, runs, ck, extraction, limiter>>

\* The rpc fails with a message that includes 'function search_similar_chunks':
\* the fallback query runs and its rows are formatted.
SearchFallback ==
    /\ search.pc = "idle"
    /\ \E req \in SearchRequests, q \in {0, 1}, message \in RpcErrors :
          /\ req.query # ""
          /\ FallbackDetected(message)
          /\ TsQueryValid(req.query)
          /\ \E f \in Limited(FallbackRows(req.user, req.query, req.documentTypes),
                              LimitOf(req)) :
                SearchDone(req, "fallback", q, message, 200,
                           [i \in 1..Len(f) |-> FallbackItem(f[i])], NoError)
    /\ UNCHANGED <<documents, document_chunks, storage, nextId, uploads, runs, ck, extraction, limiter>>

\* The fallback query fails: throw new Error(`Search failed: ${message}`), 500.
SearchFallbackFails ==
    /\ search.pc = "idle"
    /\ \E req \in SearchRequests, message \in RpcErrors :
          /\ req.query # ""
          /\ FallbackDetected(message)
          /\ \E fallbackError \in FallbackErrors(req.query) :
                SearchDone(req, "fallbackError", -1, message, 500, <<>>,
                           [message |-> "Search failed", detail |-> fallbackError])
    /\ UNCHANGED <<documents, document_chunks, storage, nextId, uploads, runs, ck, extraction, limiter>>

\* The rows of document d's text in the store.
StoredChunks(d) ==
    {[id |-> <<d, i>>, document_id |-> d, chunk_index |-> i,
      content |-> <<MetadataText(d), i>>,
      embedding |-> EmbeddingOf(<<MetadataText(d), i>>)] : i \in 0..(ChunkCount(d) - 1)}

StoredRows ==
    [user_id : Users, document_type : DocumentTypes, file_path : {<<"u1", 0>>},
     processing_status : Statuses, total_chunks : {DEFAULT_TOTAL_CHUNKS}]

InitSearch ==
    /\ documents \in [1..MaxUploads -> StoredRows]
    /\ documents[1].user_id = "u1"     \* the owner of the first document is named u1
    /\ document_chunks = UNION {StoredChunks(d) : d \in 1..MaxUploads}
    /\ storage = {}
    /\ nextId = MaxUploads
    /\ uploads = <<>>
    /\ runs = <<>>
    /\ ck = ChunkerIdle
    /\ SearchIdle
    /\ ExtractionIdle
    /\ LimiterIdle

NextSearch ==
    \/ SearchNoQuery
    \/ SearchEmbedFails
    \/ SearchPrimary
    \/ SearchPrimaryFails
    \/ SearchFallback
    \/ SearchFallbackFails

SpecSearch == InitSearch /\ [][NextSearch]_vars

(***************************************************************************)
(* /api/pdf-extract (src/api/pdf-extract.ts, the handler built on pdf.js   *)
(* and tesseract).  A text is kept by where it came from and its length;   *)
(* a recognised text also keeps its leading and trailing white space, so   *)
(* that trim() is computed and not assumed.  A page area is counted in     *)
(* units of 10000 square points, the unit textDensity divides by, and a    *)
(* density is the fraction <<characters, units>>.                          *)
(***************************************************************************)
MaxPages == 4       \* most pages of an extracted document

CHAR_THRESHOLD == 50    \* needsOCR: pageText.length < 50
OCR_PAGE_LIMIT == 3     \* ocrPages.length <= 3, ocrPages.slice(0, 3)

\* textDensity < 0.5
BelowDensityThreshold(d) == 2 * d[1] < d[2]

NeedsOCREither(len, area) ==
    BelowDensityThreshold(<<len, area>>) \/ len < CHAR_THRESHOLD

NeedsOCR(len, area) ==
    BelowDensityThreshold(<<len, area>>) /\ len < CHAR_THRESHOLD

\* the pages a document is made of: trimmed text length and area at scale 1.0
\* (an empty and a sparse A4 page, an A4 title page, a sparse poster)
PageKinds ==
    {[len |-> 0, area |-> 50], [len |-> 10, area |-> 50],
     [len |-> 30, area |-> 50], [len |-> 60, area |-> 300]}

PdfDocuments == UNION {[1..n -> PageKinds] : n \in 1..MaxPages}

\* requests the handler answers before it reads any page
EarlyRequests == {"OPTIONS", "GET", "no file", "no filepath", "empty file"}

EarlyStatus(kind) ==
    CASE kind = "OPTIONS" -> 200
      [] kind = "GET" -> 405
      [] OTHER -> 400

\* stage 2: one entry of pageContents
PageContent(doc, pageNum) ==
    [pageNumber |-> pageNum,
     text |-> [from |-> "pdf", len |-> doc[pageNum].len],
     area |-> doc[pageNum].area,
     textDensity |-> <<doc[pageNum].len, doc[pageNum].area>>,
     needsOCR |-> NeedsOCR(doc[pageNum].len, doc[pageNum].area)]

PageContents(doc) == [pageNum \in 1..Len(doc) |-> PageContent(doc, pageNum)]

RECURSIVE Filter(_, _)
\* pageContents.filter(page => page.needsOCR), as page numbers in order
Filter(pages, from) ==
    IF from > Len(pages) THEN <<>>
    ELSE IF pages[from].needsOCR THEN <<from>> \o Filter(pages, from + 1)
    ELSE Filter(pages, from + 1)

\* what worker.recognize can give for a page: text with white space around it
OcrTexts ==
    {[lead |-> 0, body |-> 0, trail |-> 1], [lead |-> 0, body |-> 10, trail |-> 0],
     [lead |-> 1, body |-> 10, trail |-> 1], [lead |-> 0, body |-> 40, trail |-> 2]}

TextLength(t) == t.lead + t.body + t.trail

\* text.trim().length
TrimLength(t) == t.body

\* the ways the body of the per-page try block can throw
OcrErrors == {"render failed", "recognize failed", "OCR timeout"}

RECURSIVE JoinedLength(_, _)
\* length of the non-empty page texts joined by '\n\n'
JoinedLength(pages, from) ==
    IF from > Len(pages) THEN 0
    ELSE LET rest == JoinedLength(pages, from + 1)
             len == pages[from].text.len
         IN  IF len = 0 THEN rest
             ELSE IF rest = 0 THEN len
             ELSE len + 2 + rest

ProcessingMethod(pages, ocrPages) ==
    IF Len(ocrPages) > 0
    THEN IF \E p \in DOMAIN pages : ~pages[p].needsOCR THEN "hybrid" ELSE "ocr"
    ELSE "text-extraction"

ExtractReject ==
    /\ extraction.pc = "idle"
    /\ \E kind \in EarlyRequests :
          extraction' = [pc |-> "done", request |-> kind, status |-> EarlyStatus(kind)]
    /\ UNCHANGED <<pipelineVars, ck, search, limiter>>

\* pdf.js rejects the file or one of its pages: the outer catch answers 500
ExtractLoadFails ==
    /\ extraction.pc = "idle"
    /\ extraction' = [pc |-> "done", request |-> "unreadable", status |-> 500]
    /\ UNCHANGED <<pipelineVars, ck, search, limiter>>

ExtractPages ==
    /\ extraction.pc = "idle"
    /\ \E doc \in PdfDocuments :
          LET pages == PageContents(doc)
              ocrPages == Filter(pages, 1)
          IN  extraction' =
                  [pc |-> IF Len(ocrPages) > 0 /\ Len(ocrPages) <= OCR_PAGE_LIMIT
                          THEN "worker" ELSE "finish",
                   request |-> "pdf",
                   extracted |-> pages,
                   pageContents |-> pages,
                   ocrPages |-> ocrPages,
                   loop |-> <<>>,
                   worker |-> "none",
                   output |-> [kind |-> "none"],
                   attempted |-> {},
                   recognized |-> {},
                   failed |-> {}]
    /\ UNCHANGED <<pipelineVars, ck, search, limiter>>

CreateWorker ==
    /\ extraction.pc = "worker"
    /\ \/ extraction' = [extraction EXCEPT !.pc = "ocr", !.worker = "created",
                                           !.loop = Slice(extraction.ocrPages, 0, OCR_PAGE_LIMIT)]
       \/ extraction' = [extraction EXCEPT !.pc = "finish", !.worker = "not created"]
    /\ UNCHANGED <<pipelineVars, ck, search, limiter>>

\* a failed page ends the loop (the catch moved out of the loop)
OcrPageFailFast ==
    /\ extraction.pc = "ocr"
    /\ extraction.loop # <<>>
    /\ LET p == Head(extraction.loop)
           page == extraction.pageContents[p]
       IN  \/ \E text \in OcrTexts :
                 extraction' =
                     [extraction EXCEPT
                         !.loop = Tail(@),
                         !.attempted = @ \cup {p},
                         !.recognized = @ \cup {p},
                         !.output = [kind |-> "text", page |-> p, text |-> text],
                         !.pageContents[p] =
                             IF TrimLength(text) > page.text.len
                             THEN [page EXCEPT
                                      !.text = [from |-> "ocr", len |-> TrimLength(text)],
                                      !.textDensity = <<4 * TrimLength(text), 9 * page.area>>]
                             ELSE page]
           \/ \E e \in OcrErrors :
                 extraction' = [extraction EXCEPT
                                   !.pc = "finish",
                                   !.attempted = @ \cup {p},
                                   !.failed = @ \cup {p},
                                   !.output = [kind |-> "error", page |-> p, message |-> e]]
    /\ UNCHANGED <<pipelineVars, ck, search, limiter>>

\* recognition output preferred when it is as long as the extraction
OcrPageNotShorter ==
    /\ extraction.pc = "ocr"
    /\ extraction.loop # <<>>
    /\ LET p == Head(extraction.loop)
           page == extraction.pageContents[p]
       IN  \/ \E text \in OcrTexts :
                 extraction' =
                     [extraction EXCEPT
                         !.loop = Tail(@),
                         !.attempted = @ \cup {p},
                         !.recognized = @ \cup {p},
                         !.output = [kind |-> "text", page |-> p, text |-> text],
                         !.pageContents[p] =
                             IF TrimLength(text) >= page.text.len
                             THEN [page EXCEPT
                                      !.text = [from |-> "ocr", len |-> TrimLength(text)],
                                      !.textDensity = <<4 * TrimLength(text), 9 * page.area>>]
                             ELSE page]
           \/ \E e \in OcrErrors :
                 extraction' = [extraction EXCEPT
                                   !.loop = Tail(@),
                                   !.attempted = @ \cup {p},
                                   !.failed = @ \cup {p},
                                   !.output = [kind |-> "error", page |-> p, message |-> e]]
    /\ UNCHANGED <<pipelineVars, ck, search, limiter>>

\* one pass of 'for (const pageContent of ocrPages.slice(0, 3))': the page is
\* rendered at scale 1.5, so its area there is 9/4 of the area at scale 1.0
OcrPage ==
    /\ extraction.pc = "ocr"
    /\ extraction.loop # <<>>
    /\ LET p == Head(extraction.loop)
           page == extraction.pageContents[p]
       IN  \/ \E text \in OcrTexts :
                 extraction' =
                     [extraction EXCEPT
                         !.loop = Tail(@),
                         !.attempted = @ \cup {p},
                         !.recognized = @ \cup {p},
                         !.output = [kind |-> "text", page |-> p, text |-> text],
                         !.pageContents[p] =
                             IF TrimLength(text) > page.text.len
                             THEN [page EXCEPT
                                      !.text = [from |-> "ocr", len |-> TrimLength(text)],
                                      !.textDensity = <<4 * TrimLength(text), 9 * page.area>>]
                             ELSE page]
           \/ \E e \in OcrErrors :
                 extraction' = [extraction EXCEPT
                                   !.loop = Tail(@),
                                   !.attempted = @ \cup {p},
                                   !.failed = @ \cup {p},
                                   !.output = [kind |-> "error", page |-> p, message |-> e]]
    /\ UNCHANGED <<pipelineVars, ck, search, limiter>>

\* worker.terminate(): a rejection is caught by the catch around the worker
OcrTerminate ==
    /\ extraction.pc = "ocr"
    /\ extraction.loop = <<>>
    /\ \E w \in {"terminated", "terminate failed"} :
          extraction' = [extraction EXCEPT !.pc = "finish", !.worker = w]
    /\ UNCHANGED <<pipelineVars, ck, search, limiter>>

\* stage 4 and the response
ExtractFinish ==
    /\ extraction.pc = "finish"
    /\ LET finalText == JoinedLength(extraction.pageContents, 1)
       IN  extraction' =
               [pc |-> "done",
                request |-> "pdf",
                extracted |-> extraction.extracted,
                pageContents |-> extraction.pageContents,
                ocrPages |-> extraction.ocrPages,
                worker |-> extraction.worker,
                output |-> extraction.output,
                attempted |-> extraction.attempted,
                recognized |-> extraction.recognized,
                failed |-> extraction.failed,
                status |-> 200,
                content |-> IF finalText = 0 THEN "placeholder" ELSE "text",
                contentLength |-> finalText,
                processingMethod |->
                    ProcessingMethod(extraction.pageContents, extraction.ocrPages)]
    /\ UNCHANGED <<pipelineVars, ck, search, limiter>>

InitExtract ==
    /\ PipelineIdle
    /\ ck = ChunkerIdle
    /\ SearchIdle
    /\ ExtractionIdle
    /\ LimiterIdle

NextExtract ==
    \/ ExtractReject
    \/ ExtractLoadFails
    \/ ExtractPages
    \/ CreateWorker
    \/ OcrPage
    \/ OcrTerminate
    \/ ExtractFinish

SpecExtract == InitExtract /\ [][NextExtract]_vars

(***************************************************************************)
(* createRateLimiter (src/unnamed/part_005): one limiter, the Map it       *)
(* closes over and the clock read by Date.now().  The Map is a function    *)
(* over the identifiers that have an entry.  'admitted' keeps, for every   *)
(* identifier, the times of all calls answered true; the code has no such  *)
(* list, it is what the limiter is measured against.                       *)
(***************************************************************************)
MaxTime == 4            \* last instant of the clock
MaxCalls == 5           \* calls of the limiter that are followed
MaxMaxRequests == 2     \* largest maxRequests a limiter is created with
MaxWindowMs == 2        \* largest windowMs a limiter is created with

Identifiers == Users

\* requests.get(identifier) || []
UserRequests(requests, identifier) ==
    IF identifier \in DOMAIN requests THEN requests[identifier] ELSE <<>>

\* userRequests.filter(time => time > now - windowMs)
ValidRequests(userRequests, now, windowMs) ==
    LET Valid(time) == time > now - windowMs
    IN  SelectSeq(userRequests, Valid)

\* requests.set(identifier, validRequests)
MapSet(requests, identifier, value) ==
    [i \in DOMAIN requests \cup {identifier} |->
        IF i = identifier THEN value ELSE requests[i]]

\* Date.now() between two calls
Tick ==
    /\ limiter.pc = "ready"
    /\ limiter.now < MaxTime
    /\ limiter' = [limiter EXCEPT !.now = @ + 1]
    /\ UNCHANGED <<pipelineVars, ck, search, extraction>>

\* the limit tested with '>' in place of '>='
LimiterCallOffByOne ==
    /\ limiter.pc = "ready"
    /\ limiter.calls < MaxCalls
    /\ \E identifier \in Identifiers :
          LET now == limiter.now
              userRequests == UserRequests(limiter.requests, identifier)
              validRequests == ValidRequests(userRequests, now, limiter.windowMs)
          IN  IF Len(validRequests) > limiter.maxRequests
              THEN limiter' = [limiter EXCEPT
                                  !.calls = @ + 1,
                                  !.last = [identifier |-> identifier, result |-> FALSE]]
              ELSE limiter' = [limiter EXCEPT
                                  !.calls = @ + 1,
                                  !.requests = MapSet(@, identifier, Append(validRequests, now)),
                                  !.admitted[identifier] = Append(@, now),
                                  !.last = [identifier |-> identifier, result |-> TRUE]]
    /\ UNCHANGED <<pipelineVars, ck, search, extraction>>

\* one call of the function returned by createRateLimiter
LimiterCall ==
    /\ limiter.pc = "ready"
    /\ limiter.calls < MaxCalls
    /\ \E identifier \in Identifiers :
          LET now == limiter.now
              userRequests == UserRequests(limiter.requests, identifier)
              validRequests == ValidRequests(userRequests, now, limiter.windowMs)
          IN  IF Len(validRequests) >= limiter.maxRequests
              THEN limiter' = [limiter EXCEPT
                                  !.calls = @ + 1,
                                  !.last = [identifier |-> identifier, result |-> FALSE]]
              ELSE limiter' = [limiter EXCEPT
                                  !.calls = @ + 1,
                                  !.requests = MapSet(@, identifier, Append(validRequests, now)),
                                  !.admitted[identifier] = Append(@, now),
                                  !.last = [identifier |-> identifier, result |-> TRUE]]
    /\ UNCHANGED <<pipelineVars, ck, search, extraction>>

InitLimiter ==
    /\ PipelineIdle
    /\ ck = ChunkerIdle
    /\ SearchIdle
    /\ ExtractionIdle
    /\ \E maxRequests \in 1..MaxMaxRequests, windowMs \in 1..MaxWindowMs :
          limiter = [pc |-> "ready",
                     maxRequests |-> maxRequests,
                     windowMs |-> windowMs,
                     now |-> 0,
                     requests |-> <<>>,
                     admitted |-> [i \in Identifiers |-> <<>>],
                     calls |-> 0,
                     last |-> [identifier |-> "", result |-> FALSE]]

NextLimiter == Tick \/ LimiterCall

SpecLimiter == InitLimiter /\ [][NextLimiter]_vars

(***************************************************************************)
(* C7: the chunker terminates for every text and every                     *)
(* chunkSize > overlap >= 0, because each pass of the loop either stops it *)
(* or begins the next window strictly to the right of the current one.     *)
(***************************************************************************)
C7_ChunkerProgress ==
    [][(ck.pc = "loop" /\ ck'.pc = "loop" /\ ck' # ck) => ck'.start > ck.start]_vars

(***************************************************************************)
(* C1: of the ingestion runs for one documentId that overlap in time, at   *)
(* most one passes the gate into 'processing' and does chunk work: two     *)
(* runs of one document are never both between the status update and the   *)
(* end of the chunk loop.                                                  *)
(***************************************************************************)
ChunkWork(r) == runs[r].pc \in {"download", "split", "embed", "insert", "complete"}

C1_OneRunPerDocument ==
    \A r1, r2 \in DOMAIN runs :
        (r1 # r2 /\ runs[r1].documentId = runs[r2].documentId)
            => ~(ChunkWork(r1) /\ ChunkWork(r2))

(***************************************************************************)
(* C2: a document whose status is 'completed' or 'failed' keeps that       *)
(* status for as long as it exists.                                        *)
(***************************************************************************)
Terminal(status) == status \in {"completed", "failed"}

C2_TerminalStatusKept ==
    [][\A d \in DOMAIN documents :
          (d \in DOMAIN documents' /\ Terminal(documents[d].processing_status))
              => documents'[d].processing_status = documents[d].processing_status]_vars

C6_CreatedPending ==
    [][\A d \in DOMAIN documents' :
          d \notin DOMAIN documents
              => documents'[d].processing_status = "pending"]_vars

ResultRows ==
    {c \in document_chunks : \E i \in 1..Len(search.results) : search.results[i].id = c.id}

C9_ResultsOnlyFromCompleted ==
    search.pc = "done"
        => \A c \in ResultRows : documents[c.document_id].processing_status = "completed"

\* A fallback search answers with items while a chunk the caller can read, of a
\* document that is not completed, matches the query.
C9_Witness ==
    /\ search.pc = "done"
    /\ search.path = "fallback"
    /\ search.results # <<>>
    /\ \E c \in Visible(search.req.user) :
          /\ TextSearch(c.content, search.req.query)
          /\ documents[c.document_id].processing_status # "completed"

(***************************************************************************)
(* C10: when a search request gives a non-empty documentTypes, the         *)
(* document_type of every item of the response, on either path, is one of  *)
(* the given types.                                                        *)
(***************************************************************************)
C10_ResultsOnlyOfGivenTypes ==
    (search.pc = "done" /\ TypesGiven(search.req.documentTypes))
        => \A i \in 1..Len(search.results) :
              search.results[i].document_type \in search.req.documentTypes

\* A fallback search with types given answers with items while a chunk the caller
\* can read, of a completed document of another type, matches the query.
C10_Witness ==
    /\ search.pc = "done"
    /\ search.path = "fallback"
    /\ TypesGiven(search.req.documentTypes)
    /\ search.results # <<>>
    /\ \E c \in Visible(search.req.user) :
          /\ TextSearch(c.content, search.req.query)
          /\ documents[c.document_id].processing_status = "completed"
          /\ documents[c.document_id].document_type \notin search.req.documentTypes

(***************************************************************************)
(* C11: a successful search returns at most limit items, in ascending      *)
(* order of the distance between chunk embedding and query embedding,      *)
(* chunks of one document at equal distance in chunk order.  As stated,    *)
(* for every successful search; as amended, for the primary path.          *)
(***************************************************************************)
RowOf(item) == CHOOSE c \in document_chunks : c.id = item.id

ItemDistance(i) == Distance(RowOf(search.results[i]).embedding, search.queryEmbedding)

RankedWithinLimit ==
    /\ Len(search.results) <= Max(LimitOf(search.req), 0)
    /\ \A i, j \in 1..Len(search.results) :
          i < j =>
              /\ ItemDistance(i) <= ItemDistance(j)
              /\ (/\ ItemDistance(i) = ItemDistance(j)
                  /\ RowOf(search.results[i]).document_id
                         = RowOf(search.results[j]).document_id)
                     => RowOf(search.results[i]).chunk_index
                            < RowOf(search.results[j]).chunk_index

C12_PreconditionsEnforced ==
    search.pc = "done"
        => /\ search.req.query = "" => search.path = "rejected"
           /\ LimitOf(search.req) <= 0
                 => (search.path = "rejected" \/ search.match_count > 0)

(***************************************************************************)
(* C13: when the store reports that the similarity function does not exist *)
(* and the handler detects it, the response is a success whose items all   *)
(* carry the nominal similarity, at most limit of them, and no error,      *)
(* unless the store fails again on the fallback query.                     *)
(***************************************************************************)
C13_UnavailableDegrades ==
    (/\ search.pc = "done"
     /\ FunctionMissing(search.rpcError)
     /\ FallbackDetected(search.rpcError)
     /\ search.error.detail # StatementTimeout)
        => /\ search.status = 200
           /\ search.error = NoError
           /\ Len(search.results) <= Max(LimitOf(search.req), 0)
           /\ \A i \in 1..Len(search.results) :
                 search.results[i].similarity = FALLBACK_SIMILARITY

(***************************************************************************)
(* C14: when the embedding call fails, or the rpc fails with an error      *)
(* other than the missing function, the response is a failure, the         *)
(* fallback query is not run and no result list is returned.               *)
(***************************************************************************)
C14_FallbackOnlyWhenUnavailable ==
    (/\ search.pc = "done"
     /\ \/ search.path = "embedding"
        \/ (search.rpcError # NoMessage /\ ~FunctionMissing(search.rpcError)))
        => /\ search.status = 500
           /\ search.path \notin {"fallback", "fallbackError"}
           /\ search.results = <<>>

(***************************************************************************)
(* C15: no step of a process-pdf request changes the status or the chunks  *)
(* of a document owned by another user than the caller.                    *)
(***************************************************************************)
C15_OwnerIsolation ==
    [][\A r \in DOMAIN runs : \A d \in DOMAIN documents :
          (/\ runs[r].documentId = d
           /\ runs'[r] # runs[r]
           /\ documents[d].user_id # runs[r].caller)
              => /\ d \in DOMAIN documents'
                 /\ documents'[d] = documents[d]
                 /\ {c \in document_chunks' : c.document_id = d} = ChunksOf(d)]_vars

(***************************************************************************)
(* C16: a failure response of the search endpoint carries no error text of *)
(* the store or of a provider.                                             *)
(***************************************************************************)
C16_NoErrorDetail ==
    (search.pc = "done" /\ search.status = 500) => search.error.detail = NoMessage

(***************************************************************************)
(* C17: a process-pdf request without documentId is answered with a 4xx    *)
(* status.                                                                 *)
(***************************************************************************)
\* The success response carries no status (200); the catch block answers 500.
ResponseStatus(response) == IF response = "success" THEN 200 ELSE 500

C17_InputErrorsAre4xx ==
    \A r \in DOMAIN runs :
        (runs[r].pc = "done" /\ runs[r].documentId = NoDocId)
            => ResponseStatus(runs[r].response) \in 400..499

(***************************************************************************)
(* C18: an upload whose text extraction failed has written no storage      *)
(* object, created no document and sent no process-pdf request.            *)
(***************************************************************************)
C18_ExtractionFailureStops ==
    \A u \in DOMAIN uploads :
        uploads[u].failed = "extract"
            => /\ PathOf(u) \notin storage
               /\ uploads[u].doc = NoDocId
               /\ \A d \in DOMAIN documents : documents[d].file_path # PathOf(u)
               /\ \A r \in DOMAIN runs : runs[r].extractedText # ExtractedText(u)

\* One upload failed at the extraction while another one went through all its steps.
C18_Witness ==
    \E u, v \in DOMAIN uploads :
        /\ uploads[u].failed = "extract"
        /\ uploads[v].pc = "done"
        /\ storage # {}
        /\ documents # <<>>

(***************************************************************************)
(* C19: every chunk belongs to an existing document, also when a document  *)
(* is deleted while a run is still inserting chunks for it.                *)
(***************************************************************************)
C19_ChunksBelongToDocuments ==
    \A c \in document_chunks : c.document_id \in DOMAIN documents

\* A run that has inserted a chunk is about to insert the next one, and its
\* document has been deleted meanwhile.
C19_Witness ==
    \E r \in DOMAIN runs :
        /\ runs[r].pc = "insert"
        /\ runs[r].i >= 1
        /\ runs[r].documentId \in 1..nextId
        /\ runs[r].documentId \notin DOMAIN documents

(***************************************************************************)
(* C20: for every window that does not reach the end of the text and whose *)
(* last '.' or newline lies more than chunkSize/2 characters after the     *)
(* window's start, the chunk is the window cut just after that character   *)
(* and the next window starts at that cut minus overlap.                   *)
(***************************************************************************)
SnapExpected(text, chunkSize, start) ==
    /\ WindowEnd(text, chunkSize, start) < Len(text)
    /\ 2 * BreakPoint(WindowText(text, chunkSize, start)) > chunkSize

C20_SnapAtSentenceBoundary ==
    [][(/\ ck.pc = "loop"
        /\ ck' # ck
        /\ ck.start >= 0
        /\ ck.start < Len(ck.text)
        /\ SnapExpected(ck.text, ck.chunkSize, ck.start))
          => LET chunkText == WindowText(ck.text, ck.chunkSize, ck.start)
                 cut == BreakPoint(chunkText) + 1
             IN  /\ ck'.chunks =
                        Append(ck.chunks, ChunkRecord(Slice(chunkText, 0, cut), ck.chunkIndex))
                 /\ ck'.start = ck.start + cut - ck.overlap]_vars

(***************************************************************************)
(* C21: the windows of a call that returns cover the text: unless the text *)
(* is empty there is a window, and the last window ends at the end of the  *)
(* text.                                                                   *)
(***************************************************************************)
\* The end of the last window: the loop leaves start = end - overlap.
LastWindowEnd == ck.start + ck.overlap

C21_WindowsCoverText ==
    ck.pc = "returned"
        => IF ck.chunks = <<>> THEN ck.text = <<>>
           ELSE LastWindowEnd = Len(ck.text)

(***************************************************************************)
(* C22: every chunk the chunker produces has non-empty content of at most  *)
(* chunkSize characters.                                                   *)
(***************************************************************************)
C22_ChunkContentNonEmptyBounded ==
    \A i \in 1..Len(ck.chunks) :
        /\ ck.chunks[i].content # <<>>
        /\ Len(ck.chunks[i].content) <= ck.chunkSize

PagesRead == extraction.pc # "idle" /\ extraction.request = "pdf"

\* the set of page numbers in ocrPages
Flagged == {extraction.ocrPages[i] : i \in DOMAIN extraction.ocrPages}

(***************************************************************************)
(* C24: a page is flagged for the recognition fallback only if its text    *)
(* density is below the density threshold and its character count is below *)
(* the character threshold; a page whose density is at or above the        *)
(* threshold is never sent to the fallback.                                *)
(***************************************************************************)
C24_FlaggedOnlyWhenSparseAndShort ==
    PagesRead
        => /\ \A p \in DOMAIN extraction.extracted :
                 extraction.extracted[p].needsOCR
                     => /\ BelowDensityThreshold(extraction.extracted[p].textDensity)
                        /\ extraction.extracted[p].text.len < CHAR_THRESHOLD
           /\ \A p \in extraction.attempted :
                 BelowDensityThreshold(extraction.extracted[p].textDensity)

\* a title page (dense, short) and a poster (sparse, long) are left alone
\* next to a sparse page that went through recognition
C24_Witness ==
    /\ PagesRead
    /\ extraction.pc = "done"
    /\ \E p, q, r \in DOMAIN extraction.extracted :
          /\ ~BelowDensityThreshold(extraction.extracted[p].textDensity)
          /\ extraction.extracted[p].text.len < CHAR_THRESHOLD
          /\ BelowDensityThreshold(extraction.extracted[q].textDensity)
          /\ extraction.extracted[q].text.len >= CHAR_THRESHOLD
          /\ {p, q} \cap extraction.attempted = {}
          /\ r \in extraction.recognized

(***************************************************************************)
(* C25: when the recognition worker is available the fallback is attempted *)
(* for every flagged page and for no other page, whatever the number of    *)
(* flagged pages.                                                          *)
(***************************************************************************)
C25_FallbackForEveryFlagged ==
    (PagesRead /\ extraction.pc = "done" /\ extraction.worker # "not created")
        => extraction.attempted = Flagged

(***************************************************************************)
(* C26: one pass of the recognition loop replaces the page's text only by  *)
(* a recognition output with strictly more characters; an output with      *)
(* fewer or equally many characters leaves the page's text and density as  *)
(* they were, and no other page is touched.                                *)
(***************************************************************************)
C26_ReplacedOnlyByLongerOutput ==
    [][(extraction.pc = "ocr" /\ extraction.loop # <<>> /\ extraction' # extraction)
          => LET p == Head(extraction.loop)
                 old == extraction.pageContents[p]
                 new == extraction'.pageContents[p]
                 out == extraction'.output
             IN  /\ \A q \in DOMAIN extraction.pageContents \ {p} :
                        extraction'.pageContents[q] = extraction.pageContents[q]
                 /\ new # old
                       => /\ out.kind = "text"
                          /\ TextLength(out.text) > old.text.len
                          /\ TrimLength(out.text) > old.text.len
                          /\ new.text = [from |-> "ocr", len |-> TrimLength(out.text)]
                 /\ (out.kind = "text" /\ TextLength(out.text) <= old.text.len)
                       => /\ new.text = old.text
                          /\ new.textDensity = old.textDensity]_vars

\* a recognition output exactly as long as the extraction was not taken,
\* while another page of the document was replaced
C26_Witness ==
    /\ PagesRead
    /\ extraction.output.kind = "text"
    /\ LET p == extraction.output.page
       IN  /\ extraction.extracted[p].text.len > 0
           /\ TextLength(extraction.output.text) = extraction.extracted[p].text.len
           /\ extraction.pageContents[p] = extraction.extracted[p]
           /\ \E q \in DOMAIN extraction.pageContents :
                 extraction.pageContents[q].text.from = "ocr"

(***************************************************************************)
(* C27: a recognition failure or timeout on a flagged page is recovered    *)
(* locally: the page keeps its extracted text, the other flagged pages are *)
(* still attempted and the request is answered with success; when the      *)
(* worker cannot be created every page keeps its extracted text and the    *)
(* request is answered with success too.                                   *)
(***************************************************************************)
C27_RecognitionFailureRecovered ==
    (PagesRead /\ extraction.pc = "done")
        => /\ extraction.status = 200
           /\ \A p \in extraction.failed :
                 extraction.pageContents[p] = extraction.extracted[p]
           /\ extraction.failed # {} => extraction.attempted = Flagged
           /\ extraction.worker = "not created"
                 => extraction.pageContents = extraction.extracted

\* recognition failed on a page and a later page was still replaced
C27_Witness ==
    /\ PagesRead
    /\ extraction.pc = "done"
    /\ extraction.status = 200
    /\ \E p \in extraction.failed :
          \E q \in extraction.recognized :
             /\ q > p
             /\ extraction.pageContents[q].text.from = "ocr"

(***************************************************************************)
(* C28: the processing method is 'text-extraction' exactly when no page    *)
(* was flagged, 'ocr' exactly when pages were flagged and recognition ran  *)
(* on every one of them, and 'hybrid' otherwise.                           *)
(***************************************************************************)
C28_MethodReflectsFallbackUse ==
    (PagesRead /\ extraction.pc = "done")
        => /\ extraction.processingMethod \in {"text-extraction", "ocr", "hybrid"}
           /\ extraction.processingMethod = "text-extraction" <=> Flagged = {}
           /\ extraction.processingMethod = "ocr"
                 <=> (Flagged # {} /\ Flagged \subseteq extraction.recognized)

\* number of the times in history that lie in the window (t - windowMs, t]
InWindow(history, t, windowMs) ==
    Cardinality({k \in DOMAIN history : history[k] > t - windowMs /\ history[k] <= t})

(***************************************************************************)
(* C30: a call of the limiter answers true exactly when fewer than         *)
(* maxRequests admitted calls of its identifier lie in the current window; *)
(* a rejected call records nothing; the entries of the other identifiers   *)
(* are left as they were; and after every call, for every identifier and   *)
(* every instant t, at most maxRequests admitted calls lie in the window   *)
(* (t - windowMs, t].                                                      *)
(***************************************************************************)
C30_AtMostMaxRequestsPerWindow ==
    [][(limiter.pc = "ready" /\ limiter'.calls # limiter.calls)
          => LET id == limiter'.last.identifier
             IN  /\ limiter'.last.result
                       <=> InWindow(limiter.admitted[id], limiter.now, limiter.windowMs)
                               < limiter.maxRequests
                 /\ ~limiter'.last.result
                       => /\ limiter'.requests = limiter.requests
                          /\ limiter'.admitted = limiter.admitted
                 /\ \A other \in Identifiers \ {id} :
                       /\ (other \in DOMAIN limiter'.requests)
                             <=> (other \in DOMAIN limiter.requests)
                       /\ UserRequests(limiter'.requests, other)
                             = UserRequests(limiter.requests, other)
                       /\ limiter'.admitted[other] = limiter.admitted[other]
                 /\ \A i \in Identifiers :
                       \A t \in 0..MaxTime :
                          InWindow(limiter'.admitted[i], t, limiter.windowMs)
                              <= limiter.maxRequests]_vars

\* an identifier is rejected at its limit while another identifier, and the
\* same identifier in an earlier window, were admitted
C30_Witness ==
    /\ limiter.pc = "ready"
    /\ ~limiter.last.result
    /\ limiter.last.identifier \in Identifiers
    /\ Len(limiter.admitted[limiter.last.identifier]) > limiter.maxRequests
    /\ \E other \in Identifiers \ {limiter.last.identifier} :
          /\ limiter.admitted[other] # <<>>
          /\ limiter.admitted[other][Len(limiter.admitted[other])] = limiter.now

====
